---- MODULE Spec2Model ----
(***************************************************************************)
(* Model of db_maint.py, the Home Assistant database maintenance script.   *)
(*                                                                         *)
(* The state is the content of the five tables the script reads and        *)
(* writes, plus what a process of the script holds: the command line it    *)
(* was started with, the statements it has handed to exec_select and       *)
(* exec_modify so far (in order), what its cursors returned, and how the   *)
(* dispatched function ended.  Every statement is committed on its own     *)
(* (`with conn`), so one action is one statement of a process, with the    *)
(* Python code that follows it up to the next statement.                   *)
(***************************************************************************)
EXTENDS Integers, Sequences, FiniteSets, TLC

(***************************************************************************)
(* Bounds of the model.                                                    *)
(***************************************************************************)
MaxTs == 2        \* created_ts and start_ts range over 1..MaxTs
MaxRows == 2      \* rows of sensors 1 and 2 in an initial table statistics
MaxMeta == 3      \* rows of statistics_meta in an initial database

(***************************************************************************)
(* Sensor names are strings, modelled as sequences of characters.          *)
(***************************************************************************)
Foo == <<"s","e","n","s","o","r",".","f","o","o">>
Foo2 == Foo \o <<"_","2">>
Foo22 == Foo2 \o <<"_","2">>
Foo12 == Foo \o <<"1","2">>
Meter2 == <<"s","e","n","s","o","r",".","e","l","e","c","t","r","i","c",
            "m","e","t","e","r","_","l","1","_","2">>
Names == {Foo, Foo2, Foo22, Foo12, Meter2}
\* the names given on the command line
ArgNames == {Foo, Foo2, Foo12}

\* "_2", the suffix of a duplicate sensor
Suffix == <<"_","2">>
\* "sensor.electricmeter", the prefix merge_all_sensors skips
MeterPrefix == <<"s","e","n","s","o","r",".","e","l","e","c","t","r","i","c",
                 "m","e","t","e","r">>
\* the LIKE pattern '%_2' of merge_all_sensors
LikeSuffix2 == <<"%","_","2">>
\* '%sensor%', the pattern of list_all_sensors
LikeSensor == <<"%","s","e","n","s","o","r","%">>
\* Python's None / SQL's NULL; row ids start at 1
None == 0

\* a test that never finds the suffix
EndsWith_never(s, suf) == FALSE

\* str.endswith
EndsWith(s, suf) ==
    /\ Len(s) >= Len(suf)
    /\ SubSeq(s, Len(s) - Len(suf) + 1, Len(s)) = suf

\* str.startswith
StartsWith(s, pre) ==
    /\ Len(s) >= Len(pre)
    /\ SubSeq(s, 1, Len(pre)) = pre

\* s[:-2]
StripTwo(s) == IF Len(s) <= 2 THEN <<>> ELSE SubSeq(s, 1, Len(s) - 2)

\* SQLite's LIKE: % matches any run of characters, _ exactly one character
\* (the names of the model are lower case, so case folding changes nothing)
RECURSIVE Like(_, _)
Like(s, pat) ==
    IF pat = <<>> THEN s = <<>>
    ELSE IF Head(pat) = "%"
         THEN \/ Like(s, Tail(pat))
              \/ (s # <<>> /\ Like(Tail(s), pat))
    ELSE IF s = <<>> THEN FALSE
    ELSE IF Head(pat) = "_" THEN Like(Tail(s), Tail(pat))
    ELSE Head(s) = Head(pat) /\ Like(Tail(s), Tail(pat))

(***************************************************************************)
(* The database.  db is a record of five tables, each a set of rows:       *)
(*   statistics_meta        [id, statistic_id]                             *)
(*   states_meta            [metadata_id, entity_id]                       *)
(*   statistics             [id, metadata_id, created_ts, start_ts]        *)
(*   statistics_short_term  [id, metadata_id, created_ts, start_ts]        *)
(*   states                 [state_id, metadata_id]                        *)
(* and of the flag unique_idx: whether the two sample tables carry Home    *)
(* Assistant's unique index on (metadata_id, start_ts), the constraint     *)
(* UPDATE OR IGNORE is written against.  The first column of every table   *)
(* is its integer primary key.                                             *)
(***************************************************************************)
\* the two tables the other way round
SampleTables_reversed == <<"statistics_short_term", "statistics">>

\* the loops of lines 199 and 338
SampleTables == <<"statistics", "statistics_short_term">>

\* the sample table named t
Table(d, t) == IF t = "statistics" THEN d.statistics ELSE d.statistics_short_term

\* d with the sample table named t replaced by rows
WithTable(d, t, rows) ==
    IF t = "statistics" THEN [d EXCEPT !.statistics = rows]
    ELSE [d EXCEPT !.statistics_short_term = rows]

\* the smallest element of a non-empty set of integers
Min(S) == CHOOSE x \in S : \A y \in S : x <= y

\* (SELECT id FROM statistics_meta WHERE statistic_id = :name LIMIT 1):
\* the row with the lowest rowid, NULL without a row
SubselectStatisticsId(d, name) ==
    LET ids == {r.id : r \in {m \in d.statistics_meta : m.statistic_id = name}}
    IN IF ids = {} THEN None ELSE Min(ids)

\* (SELECT metadata_id FROM states_meta WHERE entity_id = :name LIMIT 1)
SubselectStatesId(d, name) ==
    LET ids == {r.metadata_id : r \in {m \in d.states_meta : m.entity_id = name}}
    IN IF ids = {} THEN None ELSE Min(ids)

\* would moving row r of a sample table to metadata_id new_id break the
\* unique index on (metadata_id, start_ts)?  (NULLs never collide)
Collides(d, rows, r, new_id) ==
    /\ d.unique_idx
    /\ new_id # None
    /\ \E o \in rows : /\ o.id # r.id
                       /\ o.metadata_id = new_id
                       /\ o.start_ts = r.start_ts

(***************************************************************************)
(* The statements of the script.  A statement is its SQL text (the table   *)
(* name of an f-string kept apart) with its leading keywords apart, its    *)
(* bound parameters (names) and the ids an f-string wrote into the text.   *)
(***************************************************************************)
Stmt(verb, sql, table, params, ids) ==
    [verb |-> verb, sql |-> sql, table |-> table, params |-> params, ids |-> ids]

\* query_statistics_sensor_id's SELECT
SelectSensorId(name) ==
    Stmt("SELECT", "SELECT id, statistic_id FROM statistics_meta WHERE statistic_id = ?",
         "statistics_meta", <<name>>, <<>>)

\* list_all_sensors' SELECT
SelectAllSensors ==
    Stmt("SELECT", "SELECT statistic_id ... like '%sensor%' UNION SELECT entity_id ... like '%sensor%' ORDER BY a ASC",
         "statistics_meta", <<>>, <<>>)

\* merge_all_sensors' SELECT
SelectAll2Sensors ==
    Stmt("SELECT", "SELECT statistic_id FROM statistics_meta WHERE statistic_id like '%_2'",
         "statistics_meta", <<>>, <<>>)

\* merge_check_single_sensor's two timestamp SELECTs
SelectLastCreated(sensor_id) ==
    Stmt("SELECT", "SELECT created_ts, start_ts FROM statistics WHERE metadata_id = :sensor_id ORDER BY created_ts DESC LIMIT 1",
         "statistics", <<>>, <<sensor_id>>)

SelectFirstCreated(sensor_id) ==
    Stmt("SELECT", "SELECT created_ts, start_ts FROM statistics WHERE metadata_id = :sensor_id ORDER BY created_ts ASC LIMIT 1",
         "statistics", <<>>, <<sensor_id>>)

\* merge_single_sensor's UPDATE OR IGNORE of a sample table
UpdateOrIgnoreSamples(table, original_name, sensor2_name) ==
    Stmt("UPDATE OR IGNORE", "UPDATE OR IGNORE {table} SET metadata_id = (SELECT id FROM statistics_meta WHERE statistic_id = :original_name LIMIT 1) WHERE metadata_id = (SELECT id FROM statistics_meta WHERE statistic_id = :sensor2_name LIMIT 1)",
         table, <<original_name, sensor2_name>>, <<>>)

\* the DELETE given the original name
DeleteStatisticsMeta_original(sensor2_name) ==
    Stmt("DELETE", "DELETE FROM statistics_meta WHERE statistic_id = ?",
         "statistics_meta", <<StripTwo(sensor2_name)>>, <<>>)

\* merge_single_sensor's DELETE of the duplicate's statistics_meta row
DeleteStatisticsMeta(sensor2_name) ==
    Stmt("DELETE", "DELETE FROM statistics_meta WHERE statistic_id = ?",
         "statistics_meta", <<sensor2_name>>, <<>>)

\* merge_single_sensor's UPDATE OR IGNORE of table states
UpdateOrIgnoreStates(original_name, sensor2_name) ==
    Stmt("UPDATE OR IGNORE", "UPDATE OR IGNORE states SET metadata_id = (SELECT metadata_id FROM states_meta WHERE entity_id = :original_name LIMIT 1) WHERE metadata_id = (SELECT metadata_id FROM states_meta WHERE entity_id = :sensor2_name LIMIT 1)",
         "states", <<original_name, sensor2_name>>, <<>>)

\* the DELETE given the original name
DeleteStatesMeta_original(sensor2_name) ==
    Stmt("DELETE", "DELETE FROM states_meta WHERE entity_id = ?",
         "states_meta", <<StripTwo(sensor2_name)>>, <<>>)

\* merge_single_sensor's DELETE of the duplicate's states_meta row
DeleteStatesMeta(sensor2_name) ==
    Stmt("DELETE", "DELETE FROM states_meta WHERE entity_id = ?",
         "states_meta", <<sensor2_name>>, <<>>)

\* merge_check_single_sensor's UPDATE of a sample table
UpdateSamples(table, new_sensor_id, old_sensor_id) ==
    Stmt("UPDATE", "UPDATE {t} SET metadata_id = {new_sensor_id} WHERE metadata_id = {old_sensor_id}",
         table, <<>>, <<new_sensor_id, old_sensor_id>>)

\* str.startswith("SELECT") of exec_select's assertion
IsSelect(stmt) == stmt.verb = "SELECT"

(***************************************************************************)
(* conn.execute of a write statement: the database after it, or the        *)
(* IntegrityError SQLite raises (the statement then changes nothing).      *)
(***************************************************************************)
\* UPDATE OR IGNORE of a sample table: a row whose move collides is skipped
ExecUpdateOrIgnoreSamples(d, stmt) ==
    LET new_id == SubselectStatisticsId(d, stmt.params[1])
        old_id == SubselectStatisticsId(d, stmt.params[2])
        rows == Table(d, stmt.table)
        moved == {r \in rows : /\ old_id # None
                               /\ r.metadata_id = old_id
                               /\ ~Collides(d, rows, r, new_id)}
    IN WithTable(d, stmt.table,
                 {IF r \in moved THEN [r EXCEPT !.metadata_id = new_id] ELSE r
                    : r \in rows})

\* UPDATE OR IGNORE states: table states has no unique index to collide on
ExecUpdateOrIgnoreStates(d, stmt) ==
    LET new_id == SubselectStatesId(d, stmt.params[1])
        old_id == SubselectStatesId(d, stmt.params[2])
    IN [d EXCEPT !.states =
          {IF old_id # None /\ r.metadata_id = old_id
             THEN [r EXCEPT !.metadata_id = new_id] ELSE r : r \in d.states}]

\* does the plain UPDATE of merge_check_single_sensor hit the unique index?
UpdateViolates(d, stmt) ==
    LET rows == Table(d, stmt.table)
    IN \E r \in rows : /\ r.metadata_id = stmt.ids[2]
                       /\ Collides(d, rows, r, stmt.ids[1])

\* the UPDATE with the two ids the wrong way round
ExecUpdateSamples_swapped(d, stmt) ==
    WithTable(d, stmt.table,
              {IF r.metadata_id = stmt.ids[1]
                 THEN [r EXCEPT !.metadata_id = stmt.ids[2]] ELSE r
                 : r \in Table(d, stmt.table)})

\* UPDATE {t} SET metadata_id = {new_sensor_id} WHERE metadata_id = {old_sensor_id}
ExecUpdateSamples(d, stmt) ==
    WithTable(d, stmt.table,
              {IF r.metadata_id = stmt.ids[2]
                 THEN [r EXCEPT !.metadata_id = stmt.ids[1]] ELSE r
                 : r \in Table(d, stmt.table)})

\* does conn.execute(stmt) raise?
Raises(d, stmt) ==
    /\ stmt.sql = UpdateSamples("", 0, 0).sql
    /\ UpdateViolates(d, stmt)

\* the database after conn.execute(stmt) and the commit that follows it
Execute(d, stmt) ==
    IF stmt.sql = UpdateOrIgnoreSamples("", <<>>, <<>>).sql
      THEN ExecUpdateOrIgnoreSamples(d, stmt)
    ELSE IF stmt.sql = UpdateOrIgnoreStates(<<>>, <<>>).sql
      THEN ExecUpdateOrIgnoreStates(d, stmt)
    ELSE IF stmt.sql = DeleteStatisticsMeta(<<>>).sql
      THEN [d EXCEPT !.statistics_meta =
              {m \in @ : m.statistic_id # stmt.params[1]}]
    ELSE IF stmt.sql = DeleteStatesMeta(<<>>).sql
      THEN [d EXCEPT !.states_meta =
              {m \in @ : m.entity_id # stmt.params[1]}]
    ELSE IF stmt.sql = UpdateSamples("", 0, 0).sql
      THEN ExecUpdateSamples(d, stmt)
    ELSE d

(***************************************************************************)
(* A run in progress: st.db the database, st.trace the statements handed   *)
(* to exec_select ("read", or "failed" when conn.execute raised and the    *)
(* error was logged) and to exec_modify ("dry-run", "executed", "failed",  *)
(* or "rolled-back" when the commit at the end of `with conn` raised) so   *)
(* far, st.exc the exception that is propagating ("" for                   *)
(* none), st.val the value the last function returned, st.out how the      *)
(* handler ended, st.calls the merge_single_sensor calls so far (the name, *)
(* how the call ended, and its statements: trace[lo..hi]), st.fault the    *)
(* conn.execute call at which the driver fails (0 for none).               *)
(*                                                                         *)
(* A process runs its handler statement by statement.  The handler is      *)
(* written as one function of the run; to take the process one statement   *)
(* further it is followed from its first line: the statements st.past the  *)
(* process has behind it are passed over (their effect is in the file,     *)
(* what the lookups among them returned is in st.seen), the next one is    *)
(* executed on the file as it is now, and at the statement after that      *)
(* (st.limit reached) the process is suspended: st.susp, with st.next the  *)
(* statement it stands before.  st.whole is a run nothing interrupts.      *)
(* st.lookups is what the lookups of the run have returned so far.         *)
(*                                                                         *)
(* The connection: on Python >= 3.12 `conn.autocommit = False` (line 448)  *)
(* takes effect and a transaction is open at all times: leaving `with      *)
(* conn` commits it and begins the next.  A SELECT that has returned a row *)
(* then keeps its read lock (its snapshot, with a write-ahead log) until   *)
(* the next `with conn` of the process is left.  On older interpreters the *)
(* assignment raises AttributeError, isolation_level = None puts the       *)
(* connection in autocommit mode and no lock outlives a statement.         *)
(* st.txn is what the connection holds, st.env the interpreter, the        *)
(* journal mode of the file, what the other connection to the file holds,  *)
(* and whether the busy timeout runs out when the statement has to wait;   *)
(* st.wait: the statement waits for a lock; st.read: the database the last *)
(* SELECT read.                                                            *)
(***************************************************************************)
NoExc == ""

Entry(stmt, how) == [stmt |-> stmt, how |-> how]

\* F applied to the value of v: the run v stands for is computed once and
\* F sees its result, as a Python function sees the value of its argument
Once(v, F(_)) == CHOOSE r \in {F(s) : s \in {v}} : TRUE

\* does the driver fail on the statement exec_select or exec_modify is
\* about to hand to conn.execute?  st.fault is the number of the
\* conn.execute call of the run (lines 78 and 95; a dry-run exec_modify
\* makes none) at which the driver raises for a reason outside the
\* statement (database locked, disk full), 0 if it never does
DriverFails(st) ==
    st.fault = 1 + Cardinality({i \in DOMAIN st.trace : st.trace[i].how # "dry-run"})

\* has the process the statement the run has reached behind it?
Behind(st) == ~st.whole /\ Len(st.trace) < Len(st.past)

\* the run after a statement the process has behind it
Passed(st) == [st EXCEPT !.trace = Append(@, st.past[Len(@) + 1])]

\* has the process taken the statements this step gives it?
AtLimit(st) == ~st.whole /\ Len(st.trace) >= st.limit

\* the run as it stands before stmt
Suspend(st, stmt) == [st EXCEPT !.susp = TRUE, !.next = stmt]

\* what a connection holds between two statements: no lock; "shared", the
\* read lock of a SELECT on the database snap; "pending", the write lock of
\* an UPDATE or DELETE that has been executed and waits to be committed
NoTxn == [lock |-> "none", snap |-> <<>>]

\* Python < 3.12, a rollback journal, no other connection
NoEnv == [python312 |-> FALSE, wal |-> FALSE, olock |-> "none", timeout |-> FALSE]

\* is a transaction open between the statements (line 448 took effect)?
Transacted(s) == s.env.python312

\* the database a SELECT of the connection reads
View(s) == IF s.txn.lock = "shared" THEN s.txn.snap ELSE s.db

\* does SELECT stmt return a row on database d?
HasRows(d, stmt) ==
    IF stmt.sql = SelectSensorId(<<>>).sql
      THEN \E m \in d.statistics_meta : m.statistic_id = stmt.params[1]
    ELSE IF stmt.sql = SelectAll2Sensors.sql
      THEN \E m \in d.statistics_meta : Like(m.statistic_id, LikeSuffix2)
    ELSE IF stmt.sql = SelectAllSensors.sql
      THEN \/ \E m \in d.statistics_meta : Like(m.statistic_id, LikeSensor)
           \/ \E m \in d.states_meta : Like(m.entity_id, LikeSensor)
    ELSE \E r \in d.statistics : r.metadata_id = stmt.ids[1]

\* the statement raised in conn.execute: logged, rolled back, re-raised
Failed(s, stmt, e) ==
    [s EXCEPT !.trace = Append(@, Entry(stmt, "failed")), !.exc = e, !.txn = NoTxn]

\* the statement cannot get its lock: sqlite3 retries until the other
\* connection lets go, or gives up when the timeout (5 s) runs out and
\* conn.execute raises "database is locked"
Waiting(s, stmt) ==
    IF s.env.timeout THEN Failed(s, stmt, "OperationalError")
    ELSE [s EXCEPT !.susp = TRUE, !.wait = TRUE, !.next = stmt]

\* a SELECT needs the read lock; with a rollback journal it is not given
\* while another connection waits to commit
ReadBlocked(s) ==
    Transacted(s) /\ ~s.env.wal /\ s.txn.lock = "none" /\ s.env.olock = "pending"

\* the SELECT is executed: the cursor stands on its first row when the
\* `with conn` is left, and the read lock stays with the connection
Read(s, stmt) ==
    Once(View(s), LAMBDA v :
        [s EXCEPT !.trace = Append(@, Entry(stmt, "read")),
                  !.read = v,
                  !.txn = IF Transacted(s) /\ HasRows(v, stmt)
                            THEN [lock |-> "shared", snap |-> v] ELSE NoTxn])

\* a write statement is refused at once ("database is locked") when the
\* connection reads a snapshot that a commit of the other connection has
\* made stale (write-ahead log), or holds a read lock while the other one
\* waits to commit (rollback journal: waiting would never end)
WriteRefused(s) ==
    /\ Transacted(s)
    /\ s.txn.lock = "shared"
    /\ IF s.env.wal THEN s.txn.snap # s.db ELSE s.env.olock = "pending"

\* the write lock is taken: the statement waits for it
WriteBlocked(s) ==
    Transacted(s) /\ ~s.env.wal /\ s.txn.lock = "none" /\ s.env.olock = "pending"

\* with a rollback journal the commit waits until no other connection
\* holds a read lock
CommitBlocked(s) == Transacted(s) /\ ~s.env.wal /\ s.env.olock = "shared"

\* conn.execute of a live write statement and the commit at the end of
\* `with conn`.  A commit that has to wait leaves the connection with its
\* write lock; when the timeout runs out the commit raises, the statement
\* is rolled back and the error leaves exec_modify unlogged
Write(s, stmt) ==
    IF WriteRefused(s) THEN Failed(s, stmt, "OperationalError")
    ELSE IF WriteBlocked(s) THEN Waiting(s, stmt)
    ELSE IF Raises(s.db, stmt) THEN Failed(s, stmt, "IntegrityError")
    ELSE IF CommitBlocked(s)
      THEN IF s.env.timeout
             THEN [s EXCEPT !.trace = Append(@, Entry(stmt, "rolled-back")),
                            !.exc = "OperationalError", !.txn = NoTxn]
           ELSE IF s.txn.lock = "pending"
             THEN [s EXCEPT !.susp = TRUE, !.wait = TRUE, !.next = stmt]
           ELSE [s EXCEPT !.susp = TRUE, !.next = stmt,
                          !.txn = [lock |-> "pending", snap |-> s.db]]
    ELSE [s EXCEPT !.trace = Append(@, Entry(stmt, "executed")),
                   !.db = Execute(s.db, stmt), !.txn = NoTxn]

\* a dry-run exec_modify: the log line; leaving `with conn` commits the
\* open transaction and with it gives up the read lock
DryRun(s, stmt) ==
    [s EXCEPT !.trace = Append(@, Entry(stmt, "dry-run")), !.txn = NoTxn]

\* exec_modify without the test of dry_run
exec_modify_always(st, stmt, dry) ==
    IF st.exc # NoExc \/ st.susp THEN st
    ELSE IF Behind(st) THEN Passed(st)
    ELSE IF AtLimit(st) THEN Suspend(st, stmt)
    ELSE IF Raises(st.db, stmt) THEN Failed(st, stmt, "IntegrityError")
    ELSE [st EXCEPT !.trace = Append(@, Entry(stmt, IF dry THEN "dry-run" ELSE "executed")),
                    !.db = Execute(st.db, stmt)]

\* exec_modify that goes on after a failed statement: the error is logged
\* and swallowed
exec_modify_no_raise(st, stmt, dry) ==
    IF st.exc # NoExc \/ st.susp THEN st
    ELSE IF Behind(st) THEN Passed(st)
    ELSE IF AtLimit(st) THEN Suspend(st, stmt)
    ELSE IF dry THEN DryRun(st, stmt)
    ELSE IF DriverFails(st) \/ Raises(st.db, stmt)
      THEN [st EXCEPT !.trace = Append(@, Entry(stmt, "failed"))]
    ELSE [st EXCEPT !.trace = Append(@, Entry(stmt, "executed")),
                    !.db = Execute(st.db, stmt)]

\* exec_modify under the flag dry: log only, or execute and commit; a
\* statement that raises is rolled back, logged and re-raised
exec_modify(st, stmt, dry) ==
    Once(st, LAMBDA s :
        IF s.exc # NoExc \/ s.susp THEN s
        ELSE IF Behind(s) THEN Passed(s)
        ELSE IF AtLimit(s) THEN Suspend(s, stmt)
        ELSE IF dry THEN DryRun(s, stmt)
        ELSE IF DriverFails(s) THEN Failed(s, stmt, "OperationalError")
        ELSE Write(s, stmt))

\* exec_select: the assertion on the statement text, then the query; a
\* statement on which conn.execute raises is logged and re-raised
exec_select(st, stmt) ==
    Once(st, LAMBDA s :
        IF s.exc # NoExc \/ s.susp THEN s
        ELSE IF ~IsSelect(stmt) THEN [s EXCEPT !.exc = "AssertionError"]
        ELSE IF Behind(s) THEN Passed(s)
        ELSE IF AtLimit(s) THEN Suspend(s, stmt)
        ELSE IF DriverFails(s) THEN Failed(s, stmt, "OperationalError")
        ELSE IF ReadBlocked(s) THEN Waiting(s, stmt)
        ELSE Read(s, stmt))

\* the ids of the rows the lookup's cursor returns: what the process was
\* given when the lookup is behind it, the rows of the database its SELECT
\* has read otherwise
LookedUp(s1, sensor_name) ==
    IF ~s1.whole /\ Len(s1.trace) <= Len(s1.past)
      THEN s1.seen[Len(s1.lookups) + 1]
      ELSE {m.id : m \in {x \in s1.read.statistics_meta : x.statistic_id = sensor_name}}

\* query_statistics_sensor_id without the test for several rows
query_statistics_sensor_id_first(st, sensor_name) ==
    Once(exec_select(st, SelectSensorId(sensor_name)), LAMBDA s1 :
        LET ids == LookedUp(s1, sensor_name)
        IN IF s1.susp THEN s1
           ELSE IF s1.exc # NoExc THEN [s1 EXCEPT !.val = None, !.out = "Raised"]
           ELSE IF Cardinality(ids) = 0
             THEN [s1 EXCEPT !.val = None, !.out = "NotFound", !.lookups = Append(@, ids)]
           ELSE [s1 EXCEPT !.val = Min(ids), !.out = "Found", !.lookups = Append(@, ids)])

\* query_statistics_sensor_id: st.val is the id, None if the name has no
\* row or more than one
query_statistics_sensor_id(st, sensor_name) ==
    Once(exec_select(st, SelectSensorId(sensor_name)), LAMBDA s1 :
        LET ids == LookedUp(s1, sensor_name)
        IN IF s1.susp THEN s1
           ELSE IF s1.exc # NoExc THEN [s1 EXCEPT !.val = None, !.out = "Raised"]
           ELSE IF Cardinality(ids) = 0
             THEN [s1 EXCEPT !.val = None, !.out = "NotFound", !.lookups = Append(@, ids)]
           ELSE IF Cardinality(ids) > 1
             THEN [s1 EXCEPT !.val = None, !.out = "Ambiguous", !.lookups = Append(@, ids)]
           ELSE [s1 EXCEPT !.val = Min(ids), !.out = "Found", !.lookups = Append(@, ids)])

(***************************************************************************)
(* The handlers.  Each takes the run so far and returns the run after it.  *)
(***************************************************************************)
\* how a handler that has got past its guards ends: by the exception that
\* propagates out of exec_select or exec_modify, or by returning
Ended(s) == IF s.exc # NoExc THEN "Raised" ELSE "Done"

\* the handler returns, unless the process stands before a statement
End(s) == IF s.susp THEN s ELSE [s EXCEPT !.out = Ended(s)]

\* list_all_sensors: one SELECT, the names are only logged
list_all_sensors(st) ==
    Once(exec_select(st, SelectAllSensors), LAMBDA s : End(s))

\* merge_single_sensor looking the duplicate up after the sample tables
merge_single_sensor_late_lookup(st, original_name, dry) ==
    Once(st, LAMBDA s0 :
    LET sensor2_name == original_name \o Suffix
        q1 == query_statistics_sensor_id(s0, original_name)
        w1 == exec_modify(q1, UpdateOrIgnoreSamples(SampleTables[1], original_name, sensor2_name), dry)
        w2 == exec_modify(w1, UpdateOrIgnoreSamples(SampleTables[2], original_name, sensor2_name), dry)
        q2 == query_statistics_sensor_id(w2, sensor2_name)
        w3 == exec_modify(q2, DeleteStatisticsMeta(sensor2_name), dry)
        w4 == exec_modify(w3, UpdateOrIgnoreStates(original_name, sensor2_name), dry)
        w5 == exec_modify(w4, DeleteStatesMeta(sensor2_name), dry)
        Ret(s, how) == [s EXCEPT !.out = how,
                                 !.calls = Append(@, [name |-> original_name, out |-> how,
                                                      lo |-> Len(s0.trace) + 1,
                                                      hi |-> Len(s.trace)])]
    IN IF s0.exc # NoExc \/ s0.susp THEN s0
       ELSE IF EndsWith(original_name, Suffix) THEN Ret(s0, "Rejected")
       ELSE IF q1.susp THEN q1
       ELSE IF q1.exc # NoExc THEN Ret(q1, "Raised")
       ELSE IF q1.val = None THEN Ret(q1, "OriginalMissing")
       ELSE IF q2.susp THEN q2
       ELSE IF q2.exc # NoExc THEN Ret(q2, "Raised")
       ELSE IF q2.val = None THEN Ret(q2, "DuplicateMissing")
       ELSE Once(w5, LAMBDA s5 : IF s5.susp THEN s5 ELSE Ret(s5, Ended(s5))))

\* merge_single_sensor, lines 177-237
merge_single_sensor(st, original_name, dry) ==
    Once(st, LAMBDA s0 :
    LET sensor2_name == original_name \o Suffix
        q1 == query_statistics_sensor_id(s0, original_name)
        q2 == query_statistics_sensor_id(q1, sensor2_name)
        w1 == exec_modify(q2, UpdateOrIgnoreSamples(SampleTables[1], original_name, sensor2_name), dry)
        w2 == exec_modify(w1, UpdateOrIgnoreSamples(SampleTables[2], original_name, sensor2_name), dry)
        w3 == exec_modify(w2, DeleteStatisticsMeta(sensor2_name), dry)
        w4 == exec_modify(w3, UpdateOrIgnoreStates(original_name, sensor2_name), dry)
        w5 == exec_modify(w4, DeleteStatesMeta(sensor2_name), dry)
        Ret(s, how) == [s EXCEPT !.out = how,
                                 !.calls = Append(@, [name |-> original_name, out |-> how,
                                                      lo |-> Len(s0.trace) + 1,
                                                      hi |-> Len(s.trace)])]
    IN IF s0.exc # NoExc \/ s0.susp THEN s0
       ELSE IF EndsWith(original_name, Suffix) THEN Ret(s0, "Rejected")
       ELSE IF q1.susp THEN q1
       ELSE IF q1.exc # NoExc THEN Ret(q1, "Raised")
       ELSE IF q1.val = None THEN Ret(q1, "OriginalMissing")
       ELSE IF q2.susp THEN q2
       ELSE IF q2.exc # NoExc THEN Ret(q2, "Raised")
       ELSE IF q2.val = None THEN Ret(q2, "DuplicateMissing")
       ELSE Once(w5, LAMBDA s5 : IF s5.susp THEN s5 ELSE Ret(s5, Ended(s5))))

\* a loop that ends at the first call that does not merge
RECURSIVE MergeEach_stop(_, _, _)
MergeEach_stop(st, sensors2merge, dry) ==
    IF sensors2merge = <<>> THEN st
    ELSE LET s1 == merge_single_sensor(st, Head(sensors2merge), dry)
         IN IF s1.susp \/ s1.out # "Done" THEN s1
            ELSE MergeEach_stop(s1, Tail(sensors2merge), dry)

\* the loop of merge_all_sensors over sensors2merge
RECURSIVE MergeEach(_, _, _)
MergeEach(st, sensors2merge, dry) ==
    IF sensors2merge = <<>> THEN st
    ELSE MergeEach(merge_single_sensor(st, Head(sensors2merge), dry),
                   Tail(sensors2merge), dry)

\* the first loop of merge_all_sensors: strip the suffix, skip the meters
RECURSIVE Sensors2Merge(_)
Sensors2Merge(list_all_2_sensors) ==
    IF list_all_2_sensors = <<>> THEN <<>>
    ELSE LET sensor_name == StripTwo(Head(list_all_2_sensors))
         IN IF StartsWith(sensor_name, MeterPrefix)
              THEN Sensors2Merge(Tail(list_all_2_sensors))
              ELSE <<sensor_name>> \o Sensors2Merge(Tail(list_all_2_sensors))

\* the rows the SELECT of merge_all_sensors matches
Rows2(d) == {m \in d.statistics_meta : Like(m.statistic_id, LikeSuffix2)}

\* the orders in which the SELECT (it has no ORDER BY) may return them
Fetchall2(d) ==
    LET n == Cardinality(Rows2(d))
    IN {[i \in 1..n |-> f[i].statistic_id] :
          f \in {g \in [1..n -> Rows2(d)] : \A m \in Rows2(d) : \E i \in 1..n : g[i] = m}}

\* merge_all_sensors; list_all_2_sensors is what cursor.fetchall() returned
merge_all_sensors(st, list_all_2_sensors, dry) ==
    LET s1 == exec_select(st, SelectAll2Sensors)
        s2 == MergeEach(s1, Sensors2Merge(list_all_2_sensors), dry)
    IN Once(s2, LAMBDA s : End(s))

\* a cursor without a row: fetchone() returns None
NoRow == [id |-> None, metadata_id |-> None, created_ts |-> None, start_ts |-> None]

\* the largest element of a non-empty set of integers
Max(S) == CHOOSE x \in S : \A y \in S : x >= y

\* a query without the ORDER BY: any row of the sensor
FetchLastCreated_any(d, sensor_id) ==
    LET rows == {r \in d.statistics : r.metadata_id = sensor_id}
    IN IF sensor_id = None \/ rows = {} THEN {NoRow} ELSE rows

\* what fetchone() may return for ORDER BY created_ts DESC LIMIT 1: a row of
\* the sensor with the greatest created_ts (any of them on a tie)
FetchLastCreated(d, sensor_id) ==
    LET rows == {r \in d.statistics : r.metadata_id = sensor_id}
    IN IF sensor_id = None \/ rows = {} THEN {NoRow}
       ELSE {r \in rows : r.created_ts = Max({x.created_ts : x \in rows})}

\* the same for ORDER BY created_ts ASC LIMIT 1
FetchFirstCreated(d, sensor_id) ==
    LET rows == {r \in d.statistics : r.metadata_id = sensor_id}
    IN IF sensor_id = None \/ rows = {} THEN {NoRow}
       ELSE {r \in rows : r.created_ts = Min({x.created_ts : x \in rows})}

\* the comparisons without the third one (start_ts earlier)
OrderViolated_no_earlier_start(old_created_ts, old_start_ts, new_created_ts, new_start_ts) ==
    \/ new_created_ts < old_created_ts
    \/ new_created_ts = old_created_ts
    \/ new_start_ts = old_start_ts

\* the comparisons without the last one (start_ts equal)
OrderViolated_no_equal_start(old_created_ts, old_start_ts, new_created_ts, new_start_ts) ==
    \/ new_created_ts < old_created_ts
    \/ new_created_ts = old_created_ts
    \/ new_start_ts < old_start_ts

\* the four comparisons of lines 296-335: is the order violated?
OrderViolated(old_created_ts, old_start_ts, new_created_ts, new_start_ts) ==
    \/ new_created_ts < old_created_ts
    \/ new_created_ts = old_created_ts
    \/ new_start_ts < old_start_ts
    \/ new_start_ts = old_start_ts

\* a test that never finds the ids equal
SameSensor_never(old_sensor_id, new_sensor_id) == FALSE

\* the test of line 266
SameSensor(old_sensor_id, new_sensor_id) == old_sensor_id = new_sensor_id

\* a merge_check that deletes the metadata row of the old sensor after the move
merge_check_single_sensor_delete_old(st, old_sensor_name, new_sensor_name, old_row, new_row, dry) ==
    LET q1 == query_statistics_sensor_id(st, old_sensor_name)
        old_sensor_id == q1.val
        q2 == query_statistics_sensor_id(q1, new_sensor_name)
        new_sensor_id == q2.val
        s1 == exec_select(q2, SelectLastCreated(old_sensor_id))
        s2 == exec_select(s1, SelectFirstCreated(new_sensor_id))
        w1 == exec_modify(s2, UpdateSamples(SampleTables[1], new_sensor_id, old_sensor_id), dry)
        w2 == exec_modify(w1, UpdateSamples(SampleTables[2], new_sensor_id, old_sensor_id), dry)
        w3 == exec_modify(w2, DeleteStatisticsMeta(old_sensor_name), dry)
    IN IF q1.susp \/ old_sensor_id = None THEN q1
       ELSE IF q2.susp \/ new_sensor_id = None THEN q2
       ELSE IF SameSensor(old_sensor_id, new_sensor_id) THEN [q2 EXCEPT !.out = "SameId"]
       ELSE IF s1.susp THEN s1
       ELSE IF s1.exc # NoExc THEN [s1 EXCEPT !.out = "Raised"]
       ELSE IF old_row = NoRow THEN [s1 EXCEPT !.exc = "TypeError", !.out = "Raised"]
       ELSE IF s2.susp THEN s2
       ELSE IF s2.exc # NoExc THEN [s2 EXCEPT !.out = "Raised"]
       ELSE IF new_row = NoRow THEN [s2 EXCEPT !.exc = "TypeError", !.out = "Raised"]
       ELSE IF OrderViolated(old_row.created_ts, old_row.start_ts,
                             new_row.created_ts, new_row.start_ts)
         THEN [s2 EXCEPT !.out = "OrderViolation"]
       ELSE IF w3.susp THEN w3
       ELSE IF w3.exc # NoExc THEN [w3 EXCEPT !.out = "Raised"]
       ELSE [w3 EXCEPT !.out = "Done"]

\* merge_check_single_sensor, lines 257-352; old_row and new_row are what
\* the two fetchone() calls returned
merge_check_single_sensor(st, old_sensor_name, new_sensor_name, old_row, new_row, dry) ==
    LET q1 == query_statistics_sensor_id(st, old_sensor_name)
        old_sensor_id == q1.val
        q2 == query_statistics_sensor_id(q1, new_sensor_name)
        new_sensor_id == q2.val
        s1 == exec_select(q2, SelectLastCreated(old_sensor_id))
        s2 == exec_select(s1, SelectFirstCreated(new_sensor_id))
        w1 == exec_modify(s2, UpdateSamples(SampleTables[1], new_sensor_id, old_sensor_id), dry)
        w2 == exec_modify(w1, UpdateSamples(SampleTables[2], new_sensor_id, old_sensor_id), dry)
    IN IF q1.susp \/ old_sensor_id = None THEN q1
       ELSE IF q2.susp \/ new_sensor_id = None THEN q2
       ELSE IF SameSensor(old_sensor_id, new_sensor_id) THEN [q2 EXCEPT !.out = "SameId"]
       ELSE IF s1.susp THEN s1
       ELSE IF s1.exc # NoExc THEN [s1 EXCEPT !.out = "Raised"]
       ELSE IF old_row = NoRow THEN [s1 EXCEPT !.exc = "TypeError", !.out = "Raised"]
       ELSE IF s2.susp THEN s2
       ELSE IF s2.exc # NoExc THEN [s2 EXCEPT !.out = "Raised"]
       ELSE IF new_row = NoRow THEN [s2 EXCEPT !.exc = "TypeError", !.out = "Raised"]
       ELSE IF OrderViolated(old_row.created_ts, old_row.start_ts,
                             new_row.created_ts, new_row.start_ts)
         THEN [s2 EXCEPT !.out = "OrderViolation"]
       ELSE IF w2.susp THEN w2
       ELSE IF w2.exc # NoExc THEN [w2 EXCEPT !.out = "Raised"]
       ELSE [w2 EXCEPT !.out = "Done"]

(***************************************************************************)
(* State.                                                                  *)
(***************************************************************************)
VARIABLES
    db,        \* the database file: the five tables and unique_idx
    db0,       \* the database as the process found it (sqlite3.connect)
    dry_run,   \* the global dry_run of the process
    args,      \* the parsed command line of the process
    fetched,   \* what the cursors of the process returned
    trace,     \* the statements of the process so far, in call order
    out,       \* how the handler ended, "" while it runs
    exc,       \* the exception that ended the process, NoExc if none
    calls,     \* the merge_single_sensor calls of the process, in order
    merged,    \* the name the run before this one merged (a live merge_single
               \* that ended Done), <<>> if it did something else
    txn,       \* what the connection of the process holds between statements
    other,     \* a second process of the script on the same file
    python312, \* does the interpreter know Connection.autocommit (line 448)?
    wal        \* is the journal of the file a write-ahead log?

vars == <<db, db0, dry_run, args, fetched, trace, out, exc, calls, merged, txn,
          other, python312, wal>>

(***************************************************************************)
(* Initial databases.                                                      *)
(***************************************************************************)
Ts == 1..MaxTs

\* statistics_meta with ids 1..n in insertion order, n <= MaxMeta
MetaTables ==
    UNION {{{[id |-> i, statistic_id |-> f[i]] : i \in 1..n} : f \in [1..n -> Names]}
             : n \in 0..MaxMeta}

\* states_meta has its own id space: the duplicate was registered first here
StatesMetaTables ==
    SUBSET {[metadata_id |-> 1, entity_id |-> Foo2],
            [metadata_id |-> 2, entity_id |-> Foo]}

\* one state row per states_meta id and one that has no sensor
StatesRows ==
    {[state_id |-> 1, metadata_id |-> 1],
     [state_id |-> 2, metadata_id |-> 2],
     [state_id |-> 3, metadata_id |-> None]}

\* sample rows as (metadata_id, created_ts, start_ts), ids given in this order
SampleKey(t) == (t[1] * (MaxTs + 1) + t[2]) * (MaxTs + 1) + t[3]

SampleTable(S) ==
    {[id |-> 1 + Cardinality({u \in S : SampleKey(u) < SampleKey(t)}),
      metadata_id |-> t[1], created_ts |-> t[2], start_ts |-> t[3]] : t \in S}

\* does a sample table satisfy the unique index on (metadata_id, start_ts)?
UniqueOk(rows) ==
    \A r, o \in rows :
        (r.metadata_id = o.metadata_id /\ r.start_ts = o.start_ts) => r.id = o.id

\* statistics tables: up to MaxRows rows of the sensors 1 and 2, one of sensor 3
StatisticsTables ==
    {SampleTable(S \cup {<<3, MaxTs, MaxTs>>}) :
       S \in {X \in SUBSET ({1, 2} \X Ts \X Ts) : Cardinality(X) <= MaxRows}}

\* two short-term tables: sensors 1 and 2 with the same start_ts, sensors 1 and 3
ShortTermTables ==
    {SampleTable(S) : S \in {{<<1, 1, 1>>, <<2, 1, 1>>}, {<<1, 1, 1>>, <<3, 1, 1>>}}}

\* the metadata of the sample-rich databases
MetaFixed ==
    {[id |-> 1, statistic_id |-> Foo], [id |-> 2, statistic_id |-> Foo2],
     [id |-> 3, statistic_id |-> Foo12]}

\* the samples of the metadata-rich databases
StatisticsFixed == SampleTable({<<1, 1, 1>>, <<2, 1, 1>>, <<2, MaxTs, MaxTs>>})

TypeOK ==
    /\ db.unique_idx \in BOOLEAN
    /\ dry_run \in BOOLEAN
    /\ \A m \in db.statistics_meta : m.id \in Nat \ {None}
    /\ exc \in {NoExc, "TypeError", "IntegrityError", "AssertionError",
                "OperationalError"}
    /\ txn.lock \in {"none", "shared", "pending"}
    /\ other.txn.lock \in {"none", "shared", "pending"}
    /\ python312 \in BOOLEAN
    /\ wal \in BOOLEAN

NoArgs == [action |-> "", sensor_name_old |-> <<>>, sensor_name_new |-> <<>>,
           sensor_name |-> <<>>]

\* what the cursors of a process returned: the rows of the two fetchone()
\* of merge_check, the fetchall() of merge_all, and, per lookup of
\* query_statistics_sensor_id, the ids of the rows of its fetchall();
\* fail_at: the conn.execute call at which the driver fails, 0 for none
NoFetch == [old_row |-> NoRow, new_row |-> NoRow, list_all_2_sensors |-> <<>>,
            lookups |-> <<>>, fail_at |-> 0]

\* a process of the script: its globals, its cursors' rows and its log
NoProc == [dry_run |-> TRUE, args |-> NoArgs, fetched |-> NoFetch, trace |-> <<>>,
           out |-> "", exc |-> NoExc, calls |-> <<>>, txn |-> NoTxn]

\* both sensors of the pair have a states_meta row
StatesMetaBoth ==
    {[metadata_id |-> 1, entity_id |-> Foo2], [metadata_id |-> 2, entity_id |-> Foo]}

ShortTermFixed == SampleTable({<<1, 1, 1>>, <<2, 1, 1>>, <<2, 2, 2>>})

\* the initial databases: any metadata with fixed samples, any samples with
\* fixed metadata, and any states_meta with both fixed
InitDb ==
    \/ \E m \in MetaTables, u \in BOOLEAN :
         db = [statistics_meta |-> m, states_meta |-> StatesMetaBoth,
               statistics |-> StatisticsFixed,
               statistics_short_term |-> ShortTermFixed,
               states |-> StatesRows, unique_idx |-> u]
    \/ \E s \in StatisticsTables, t \in ShortTermTables, u \in BOOLEAN :
         /\ u => UniqueOk(s) /\ UniqueOk(t)
         /\ db = [statistics_meta |-> MetaFixed, states_meta |-> StatesMetaBoth,
                  statistics |-> s, statistics_short_term |-> t,
                  states |-> StatesRows, unique_idx |-> u]
    \/ \E sm \in StatesMetaTables, u \in BOOLEAN :
         db = [statistics_meta |-> MetaFixed, states_meta |-> sm,
               statistics |-> StatisticsFixed,
               statistics_short_term |-> ShortTermFixed,
               states |-> StatesRows, unique_idx |-> u]

\* no process is running
InitIdle ==
    /\ db0 = db
    /\ dry_run = TRUE
    /\ args = NoArgs
    /\ fetched = NoFetch
    /\ trace = <<>>
    /\ out = ""
    /\ exc = NoExc
    /\ calls = <<>>
    /\ merged = <<>>
    /\ txn = NoTxn
    /\ other = NoProc

\* One process at a time meets no other connection: every statement gets
\* its lock at once and reads the file as it is, on every interpreter and
\* with either journal.  The runs of Spec are given for one of them.
Init ==
    /\ InitDb
    /\ InitIdle
    /\ python312 = FALSE
    /\ wal = FALSE

(***************************************************************************)
(* One run of the script: __main__ parses the command line, sets dry_run,  *)
(* connects and dispatches.  The handler then hands its statements to the  *)
(* database one at a time: exec_select and exec_modify open a transaction  *)
(* per statement (`with conn`), so the file is committed and free between  *)
(* two statements of a run.  What a process leaves in memory is gone once  *)
(* it exits.                                                               *)
(***************************************************************************)
Idle == args.action = ""

\* no statement: the process has nothing before it
NoStmt == Stmt("", "", "", <<>>, <<>>)

\* a run before its handler, on database d
StartOn(d) == [db |-> d, trace |-> <<>>, exc |-> NoExc, val |-> None, out |-> "",
               calls |-> <<>>, fault |-> 0, whole |-> TRUE, past |-> <<>>,
               limit |-> 0, susp |-> FALSE, next |-> NoStmt, seen |-> <<>>,
               lookups |-> <<>>, txn |-> NoTxn, env |-> NoEnv, wait |-> FALSE,
               read |-> d]

\* the dispatch of lines 452-459 for command line a, in mode dry, with f
\* what the cursors return
Dispatch(start, a, f, dry) ==
    IF a.action = "list_sensors" THEN list_all_sensors(start)
    ELSE IF a.action = "merge_check"
      THEN merge_check_single_sensor(start, a.sensor_name_old, a.sensor_name_new,
                                     f.old_row, f.new_row, dry)
    ELSE IF a.action = "merge_all"
      THEN merge_all_sensors(start, f.list_all_2_sensors, dry)
    ELSE merge_single_sensor(start, a.sensor_name, dry)

\* the run of command line a on database d when nothing else touches the
\* file from its first statement to its last
Run(d, a, f, dry) == Dispatch([StartOn(d) EXCEPT !.fault = f.fail_at], a, f, dry)

\* process p, with f what its cursors return, taken on database d up to
\* its statement number limit + 1, in environment e
Resume(d, p, f, limit, e) ==
    Dispatch([StartOn(d) EXCEPT !.fault = f.fail_at, !.whole = FALSE,
                                !.past = p.trace, !.limit = limit,
                                !.seen = f.lookups, !.txn = p.txn, !.env = e],
             p.args, f, p.dry_run)

\* the process after st: a SELECT that raised has returned no cursor, so
\* nothing was fetched; a process that has ended has closed its connection
After(p, f, st) ==
    [p EXCEPT !.fetched = [(IF st.exc = "OperationalError" THEN p.fetched ELSE f)
                             EXCEPT !.lookups = st.lookups],
              !.trace = st.trace,
              !.out = IF st.susp THEN "" ELSE st.out,
              !.exc = st.exc,
              !.calls = st.calls,
              !.txn = IF st.susp THEN st.txn ELSE NoTxn]

\* lines 435-450: a process with command line a in mode dry connects; it
\* runs up to its first statement (k: the conn.execute call that will fail)
Connect(d, a, dry, k) ==
    Once([NoProc EXCEPT !.dry_run = dry, !.args = a,
                        !.fetched = [NoFetch EXCEPT !.fail_at = k]],
         LAMBDA p : Once(Resume(d, p, p.fetched, 0, NoEnv),
                         LAMBDA st : After(p, p.fetched, st)))

\* has the process a statement before it?
Running(p) == p.args.action # "" /\ p.out = ""

\* what the cursor of SELECT stmt may return on database d, where SQL leaves
\* it open: the row of a tie, the order of the rows without ORDER BY
Picks(d, f, stmt) ==
    IF stmt.sql = SelectAll2Sensors.sql
      THEN {[f EXCEPT !.list_all_2_sensors = list] : list \in Fetchall2(d)}
    ELSE IF stmt.sql = SelectLastCreated(None).sql
      THEN {[f EXCEPT !.old_row = r] : r \in FetchLastCreated(d, stmt.ids[1])}
    ELSE IF stmt.sql = SelectFirstCreated(None).sql
      THEN {[f EXCEPT !.new_row = r] : r \in FetchFirstCreated(d, stmt.ids[1])}
    ELSE {f}

\* the database the next SELECT of process p reads when the file is d
ViewOf(d, p) == IF p.txn.lock = "shared" THEN p.txn.snap ELSE d

\* the interpreter and the journal of the variables, with what the other
\* connection holds
Env(olock) == [python312 |-> python312, wal |-> wal, olock |-> olock,
               timeout |-> FALSE]

\* does the wait for a lock end before sqlite3.connect's timeout?  Only a
\* transaction on a rollback journal ever waits.
Timeouts(e) == IF e.python312 /\ ~e.wal THEN BOOLEAN ELSE {FALSE}

\* the next statement of process p on database d in environment e: the
\* database and the process after it, the process being at its next
\* statement or at its end; nothing while the statement waits for a lock
Steps(d, p, e) ==
    LET nxt == Resume(d, p, p.fetched, Len(p.trace), e).next
        after == UNION {{Once(Resume(d, p, f, Len(p.trace) + 1,
                                     [e EXCEPT !.timeout = t]),
                              LAMBDA st : [db |-> st.db, wait |-> st.wait,
                                           proc |-> After(p, f, st)])
                           : f \in Picks(ViewOf(d, p), p.fetched, n)}
                         : n \in {nxt}, t \in Timeouts(e)}
    IN {r \in after : ~r.wait}

\* the process of the variables
Me == [dry_run |-> dry_run, args |-> args, fetched |-> fetched, trace |-> trace,
       out |-> out, exc |-> exc, calls |-> calls, txn |-> txn]

\* the process starts
Start(a, dry, k) ==
    \E p \in {Connect(db, a, dry, k)} :
    /\ merged' = merged
    /\ db' = db
    /\ db0' = db
    /\ dry_run' = p.dry_run
    /\ args' = p.args
    /\ fetched' = p.fetched
    /\ trace' = p.trace
    /\ out' = p.out
    /\ exc' = p.exc
    /\ calls' = p.calls
    /\ txn' = p.txn
    /\ UNCHANGED <<other, python312, wal>>

\* the id query_statistics_sensor_id returns for a name
SensorId(d, name) ==
    LET rows == {m \in d.statistics_meta : m.statistic_id = name}
    IN IF Cardinality(rows) = 1 THEN (CHOOSE m \in rows : TRUE).id ELSE None

ListSensors ==
    /\ Idle
    /\ \E dry \in BOOLEAN :
        Start([NoArgs EXCEPT !.action = "list_sensors"], dry, 0)

MergeCheck ==
    /\ Idle
    /\ \E dry \in BOOLEAN, old \in ArgNames, new \in ArgNames :
        Start([NoArgs EXCEPT !.action = "merge_check", !.sensor_name_old = old,
                             !.sensor_name_new = new], dry, 0)

MergeSingle ==
    /\ Idle
    /\ \E dry \in BOOLEAN, name \in ArgNames :
        Start([NoArgs EXCEPT !.action = "merge_single", !.sensor_name = name], dry, 0)

MergeAll ==
    /\ Idle
    /\ \E dry \in BOOLEAN :
        Start([NoArgs EXCEPT !.action = "merge_all"], dry, 0)

\* one exec_select or exec_modify call of the process: its transaction, and
\* the code after it up to the next call or to the end of the handler
Step ==
    /\ Running(Me)
    /\ \E r \in Steps(db, Me, Env(other.txn.lock)) :
        /\ db' = r.db
        /\ fetched' = r.proc.fetched
        /\ trace' = r.proc.trace
        /\ out' = r.proc.out
        /\ exc' = r.proc.exc
        /\ calls' = r.proc.calls
        /\ txn' = r.proc.txn
    /\ UNCHANGED <<db0, dry_run, args, merged, other, python312, wal>>

\* the process ends: its globals and its log are gone, the file stays
Exit ==
    /\ ~Idle
    /\ ~Running(Me)
    /\ merged' = IF args.action = "merge_single" /\ ~dry_run /\ out = "Done"
                   THEN args.sensor_name ELSE <<>>
    /\ db' = db
    /\ db0' = db
    /\ dry_run' = TRUE
    /\ args' = NoArgs
    /\ fetched' = NoFetch
    /\ trace' = <<>>
    /\ out' = ""
    /\ exc' = NoExc
    /\ calls' = <<>>
    /\ txn' = NoTxn
    /\ UNCHANGED <<other, python312, wal>>

\* the runs of one process at a time: nothing else writes to the file
\* while the script runs
Next == ListSensors \/ MergeCheck \/ MergeSingle \/ MergeAll \/ Step \/ Exit

Spec == Init /\ [][Next]_vars

(***************************************************************************)
(* Runs in which the driver fails: the k-th conn.execute call of the run,  *)
(* a SELECT or a live write, raises for a reason outside the statement.    *)
(* The databases are a few of the initial ones.  No run on them makes more *)
(* than MaxFault calls (a live merge_all makes 10: one listing, two        *)
(* lookups per sensor and up to five writes), so every call of every run   *)
(* is one that can fail.                                                   *)
(***************************************************************************)
MaxFault == 10

\* statistics in which the check of merge_check passes for sensors 1 and 2
StatisticsPassing == SampleTable({<<1, 1, 1>>, <<2, 2, 2>>, <<3, MaxTs, MaxTs>>})

InitFault ==
    /\ Init
    /\ db.statistics_meta = MetaFixed
    /\ db.statistics \in {StatisticsFixed, StatisticsPassing}

FaultyListSensors ==
    /\ Idle
    /\ \E k \in 0..MaxFault, dry \in BOOLEAN :
        Start([NoArgs EXCEPT !.action = "list_sensors"], dry, k)

FaultyMergeCheck ==
    /\ Idle
    /\ \E k \in 0..MaxFault, dry \in BOOLEAN, old \in ArgNames, new \in ArgNames :
        Start([NoArgs EXCEPT !.action = "merge_check", !.sensor_name_old = old,
                             !.sensor_name_new = new], dry, k)

FaultyMergeSingle ==
    /\ Idle
    /\ \E k \in 0..MaxFault, dry \in BOOLEAN, name \in ArgNames :
        Start([NoArgs EXCEPT !.action = "merge_single", !.sensor_name = name], dry, k)

FaultyMergeAll ==
    /\ Idle
    /\ \E k \in 0..MaxFault, dry \in BOOLEAN :
        Start([NoArgs EXCEPT !.action = "merge_all"], dry, k)

NextFault ==
    \/ FaultyListSensors \/ FaultyMergeCheck \/ FaultyMergeSingle \/ FaultyMergeAll
    \/ Step \/ Exit

SpecFault == InitFault /\ [][NextFault]_vars

\* the conn.execute calls a run has made
Executes(tr) == Cardinality({i \in DOMAIN tr : tr[i].how # "dry-run"})

\* every call of a run is within the calls at which the driver fails
EveryCallCanFail == Executes(trace) <= MaxFault

(***************************************************************************)
(* Two processes of the script on one file.  Nothing in the script keeps a *)
(* second process from the file; what sqlite3 does about it depends on the *)
(* interpreter and on the journal of the file, which InitConcurrent        *)
(* chooses.  Before Python 3.12 the connection is in autocommit mode and a *)
(* run holds no lock between two statements: the statements of the two     *)
(* processes interleave freely.  From Python 3.12 on a process that has    *)
(* read a row keeps its read lock until its next statement is done.  With  *)
(* a rollback journal the commit of the other process waits for that lock  *)
(* and raises "database is locked" when the timeout runs out; a process    *)
(* that holds a read lock while the other one waits to commit has its own  *)
(* write refused.  With a write-ahead log the process goes on reading its  *)
(* snapshot and its next write is refused when the other process has       *)
(* committed since.  Once a process is past its SELECTs its writes         *)
(* interleave with the statements of the other on every interpreter.       *)
(*                                                                         *)
(* The first process runs any action of the dispatch, live or dry; the     *)
(* second one runs live merge_single and merge_check.  The database is one *)
(* in which the check of merge_check passes for sensors 1 and 3.  Spec and *)
(* SpecFault are the runs the operator is told to make: with nothing else  *)
(* writing to the file.                                                    *)
(***************************************************************************)
StatisticsShared == SampleTable({<<1, 1, 1>>, <<2, 1, 1>>, <<3, MaxTs, MaxTs>>})

InitConcurrent ==
    /\ InitDb
    /\ InitIdle
    /\ python312 \in BOOLEAN
    /\ wal \in IF python312 THEN BOOLEAN ELSE {FALSE}
    /\ db.statistics_meta = MetaFixed
    /\ db.states_meta = StatesMetaBoth
    /\ db.statistics = StatisticsShared
    /\ db.statistics_short_term = SampleTable({<<1, 1, 1>>, <<2, 1, 1>>})

OtherMergeSingle ==
    /\ other = NoProc
    /\ \E name \in ArgNames :
        other' = Connect(db, [NoArgs EXCEPT !.action = "merge_single",
                                            !.sensor_name = name], FALSE, 0)
    /\ UNCHANGED <<db, db0, dry_run, args, fetched, trace, out, exc, calls, merged,
                   txn, python312, wal>>

OtherMergeCheck ==
    /\ other = NoProc
    /\ \E old \in ArgNames, new \in ArgNames :
        other' = Connect(db, [NoArgs EXCEPT !.action = "merge_check",
                                            !.sensor_name_old = old,
                                            !.sensor_name_new = new], FALSE, 0)
    /\ UNCHANGED <<db, db0, dry_run, args, fetched, trace, out, exc, calls, merged,
                   txn, python312, wal>>

\* one statement of the second process
OtherStep ==
    /\ Running(other)
    /\ \E r \in Steps(db, other, Env(txn.lock)) :
        /\ db' = r.db
        /\ other' = r.proc
    /\ UNCHANGED <<db0, dry_run, args, fetched, trace, out, exc, calls, merged,
                   txn, python312, wal>>

OtherExit ==
    /\ other # NoProc
    /\ ~Running(other)
    /\ other' = NoProc
    /\ UNCHANGED <<db, db0, dry_run, args, fetched, trace, out, exc, calls, merged,
                   txn, python312, wal>>

NextConcurrent ==
    \/ ListSensors \/ MergeCheck \/ MergeSingle \/ MergeAll \/ Step \/ Exit
    \/ OtherMergeSingle \/ OtherMergeCheck \/ OtherStep \/ OtherExit

SpecConcurrent == InitConcurrent /\ [][NextConcurrent]_vars

(***************************************************************************)
(* Properties.  In a state with Finished the handler has returned or       *)
(* raised: db0 is the database before the run, db the database after it.   *)
(***************************************************************************)
IsWrite(e) == ~IsSelect(e.stmt)

\* the exec_modify calls of a trace, in order
Writes(tr) == SelectSeq(tr, IsWrite)

\* the statements of a trace
Stmts(tr) == [i \in DOMAIN tr |-> tr[i].stmt]

Count(seq, x) == Cardinality({i \in DOMAIN seq : seq[i] = x})

Finished == ~Idle /\ ~Running(Me)

Ran(action) == Finished /\ args.action = action

\* the rows of a statistics table that reference a sensor id
RowsOf(rows, sensor_id) == {r \in rows : r.metadata_id = sensor_id}

\* C1: a dry run leaves all five tables as it found them, hands no
\* statement to the database, and logs every write statement the live run
\* of the same command on the same database would issue.
C1_DryRunChangesNothing ==
    (~Idle /\ dry_run) =>
        /\ db = db0
        /\ \A i \in DOMAIN trace : trace[i].how \in {"read", "dry-run"}
        /\ Finished =>
             LET live == Stmts(Writes(Run(db0, args, fetched, FALSE).trace))
                 logged == Stmts(Writes(trace))
             IN \A i \in DOMAIN live : Count(live, live[i]) <= Count(logged, live[i])

\* a dry merge_all that logs two merges where the live run would change
\* the database
C1_Witness ==
    /\ Ran("merge_all") /\ dry_run
    /\ Len(Writes(trace)) = 10
    /\ Run(db0, args, fetched, FALSE).db # db0
    /\ Len(Writes(Run(db0, args, fetched, FALSE).trace)) = 5

\* C2: when both names resolve to different sensors that have rows in
\* statistics, the rows compared are one of the old sensor with the
\* greatest created_ts and one of the new sensor with the least; if
\* new_created_ts <= old_created_ts or new_start_ts <= old_start_ts the
\* run reports the violation and writes nothing; a merge_check that issues
\* a write has found both comparisons strict.
C2_StrictOrderOrNoWrite ==
    Ran("merge_check") =>
        LET old_id == SensorId(db0, args.sensor_name_old)
            new_id == SensorId(db0, args.sensor_name_new)
            olds == RowsOf(db0.statistics, old_id)
            news == RowsOf(db0.statistics, new_id)
            o == fetched.old_row
            n == fetched.new_row
        IN /\ (old_id # None /\ new_id # None /\ old_id # new_id
                 /\ olds # {} /\ news # {}) =>
                /\ o \in olds /\ \A r \in olds : r.created_ts <= o.created_ts
                /\ n \in news /\ \A r \in news : r.created_ts >= n.created_ts
                /\ (n.created_ts <= o.created_ts \/ n.start_ts <= o.start_ts) =>
                      /\ out = "OrderViolation"
                      /\ Writes(trace) = <<>>
                      /\ db = db0
           /\ Writes(trace) # <<>> =>
                /\ o \in olds /\ n \in news
                /\ n.created_ts > o.created_ts
                /\ n.start_ts > o.start_ts

\* a live merge_check stopped by equal start_ts alone
C2_Witness ==
    /\ Ran("merge_check") /\ ~dry_run
    /\ out = "OrderViolation"
    /\ fetched.new_row.created_ts > fetched.old_row.created_ts
    /\ fetched.new_row.start_ts = fetched.old_row.start_ts
    /\ Cardinality(RowsOf(db0.statistics, SensorId(db0, args.sensor_name_old))) > 1

\* C3: a live merge_check whose names resolve to different sensors, whose
\* check passes and which returns leaves, in statistics and in
\* statistics_short_term, no row of the old id, every former row of the old
\* id as a row of the new id, every other row as it was, and as many rows
\* as before.
C3_MovePostcondition ==
    LET old_id == SensorId(db0, args.sensor_name_old)
        new_id == SensorId(db0, args.sensor_name_new)
        o == fetched.old_row
        n == fetched.new_row
        Moved(before, after) ==
            /\ RowsOf(after, old_id) = {}
            /\ \A r \in before :
                  IF r.metadata_id = old_id
                    THEN [r EXCEPT !.metadata_id = new_id] \in after
                    ELSE r \in after
            /\ Cardinality(after) = Cardinality(before)
    IN (/\ Ran("merge_check") /\ ~dry_run /\ exc = NoExc
        /\ old_id # None /\ new_id # None /\ old_id # new_id
        /\ o # NoRow /\ n # NoRow
        /\ n.created_ts > o.created_ts /\ n.start_ts > o.start_ts) =>
           /\ out = "Done"
           /\ Moved(db0.statistics, db.statistics)
           /\ Moved(db0.statistics_short_term, db.statistics_short_term)

\* a live move of rows in both tables, beside rows of the new sensor and of
\* a third one
C3_Witness ==
    LET old_id == SensorId(db0, args.sensor_name_old)
        new_id == SensorId(db0, args.sensor_name_new)
    IN /\ Ran("merge_check") /\ ~dry_run /\ out = "Done"
       /\ RowsOf(db0.statistics, old_id) # {}
       /\ RowsOf(db0.statistics_short_term, old_id) # {}
       /\ \E r \in db0.statistics : r.metadata_id \notin {old_id, new_id}
       /\ \E r \in db0.statistics_short_term : r.metadata_id \notin {old_id, new_id}

\* the statistics_meta rows with a name
Named(meta, name) == {m \in meta : m.statistic_id = name}

\* does a name end in the two characters _2?
EndsIn_2(name) == Len(name) >= 2 /\ name[Len(name) - 1] = "_" /\ name[Len(name)] = "2"

\* C4: a live merge_single(X), X not ending in _2, X and X_2 each with one
\* statistics_meta row, leaves no row named X_2 in statistics_meta or in
\* states_meta, so that looking X_2 up finds nothing, and leaves the rows of
\* X in both metadata tables as they were.
C4_DuplicateMetadataDeleted ==
    LET X == args.sensor_name
        X_2 == X \o <<"_", "2">>
    IN (/\ Ran("merge_single") /\ ~dry_run /\ ~EndsIn_2(X)
        /\ Cardinality(Named(db0.statistics_meta, X)) = 1
        /\ Cardinality(Named(db0.statistics_meta, X_2)) = 1) =>
           /\ out = "Done" /\ exc = NoExc
           /\ Named(db.statistics_meta, X_2) = {}
           /\ \A m \in db.states_meta : m.entity_id # X_2
           /\ query_statistics_sensor_id(StartOn(db), X_2).val = None
           /\ query_statistics_sensor_id(StartOn(db), X_2).out = "NotFound"
           /\ Named(db.statistics_meta, X) = Named(db0.statistics_meta, X)
           /\ \A m \in db0.states_meta : m.entity_id = X => m \in db.states_meta

\* a live merge that found the pair in both metadata tables
C4_Witness ==
    /\ Ran("merge_single") /\ ~dry_run /\ out = "Done"
    /\ \E m \in db0.states_meta : m.entity_id = args.sensor_name
    /\ \E m \in db0.states_meta : m.entity_id = args.sensor_name \o <<"_", "2">>
    /\ Cardinality(db.statistics_meta) = Cardinality(db0.statistics_meta) - 1
    /\ Cardinality(db.states_meta) = Cardinality(db0.states_meta) - 1

\* C5: a live merge_single(X) run right after a live merge_single(X) that
\* ended Done finds X_2 missing, issues no write statement, raises nothing
\* and leaves the database as the first run left it.
C5_SecondMergeIsNoOp ==
    (Ran("merge_single") /\ ~dry_run /\ merged # <<>> /\ args.sensor_name = merged) =>
        /\ out = "DuplicateMissing"
        /\ exc = NoExc
        /\ Writes(trace) = <<>>
        /\ db = db0

\* the second of two live merges of the same name
C5_Witness ==
    /\ Ran("merge_single") /\ ~dry_run
    /\ merged # <<>> /\ args.sensor_name = merged
    /\ Len(trace) = 2

\* C6: a merge_check whose two names resolve to the same id ends with the
\* same-id error after the two lookups, before any timestamp query, with no
\* write statement, in dry-run and in live mode.
C6_SameIdAborts ==
    LET old_id == SensorId(db0, args.sensor_name_old)
        new_id == SensorId(db0, args.sensor_name_new)
    IN (Ran("merge_check") /\ old_id # None /\ old_id = new_id) =>
           /\ out = "SameId" /\ exc = NoExc
           /\ Len(trace) = 2
           /\ \A i \in DOMAIN trace :
                 trace[i].how = "read" /\ trace[i].stmt.table = "statistics_meta"
           /\ db = db0

\* a live merge_check of a sensor that has rows with itself
C6_Witness ==
    /\ Ran("merge_check") /\ ~dry_run /\ out = "SameId"
    /\ args.sensor_name_old = args.sensor_name_new
    /\ RowsOf(db0.statistics, SensorId(db0, args.sensor_name_old)) # {}

\* C7: the lookup returns an id exactly when one statistics_meta row has the
\* name (then that row's id) and writes nothing; a merge_check one of whose
\* names has no row or several returns without an exception, with no write
\* statement and the database unchanged.
C7_LookupFailureAborts ==
    /\ \A name \in ArgNames :
          LET q == query_statistics_sensor_id(StartOn(db), name)
          IN /\ (q.val # None) <=> (Cardinality(Named(db.statistics_meta, name)) = 1)
             /\ q.val # None => \E m \in Named(db.statistics_meta, name) : m.id = q.val
             /\ q.db = db /\ Writes(q.trace) = <<>>
    /\ (/\ Ran("merge_check")
        /\ \/ Cardinality(Named(db0.statistics_meta, args.sensor_name_old)) # 1
           \/ Cardinality(Named(db0.statistics_meta, args.sensor_name_new)) # 1) =>
           /\ exc = NoExc
           /\ out \in {"NotFound", "Ambiguous"}
           /\ Writes(trace) = <<>>
           /\ db = db0

\* a live merge_check whose old sensor has rows and whose new name has two
\* statistics_meta rows
C7_Witness ==
    /\ Ran("merge_check") /\ ~dry_run /\ out = "Ambiguous"
    /\ Cardinality(Named(db0.statistics_meta, args.sensor_name_new)) = 2
    /\ RowsOf(db0.statistics, SensorId(db0, args.sensor_name_old)) # {}

\* C8: merge_single(name) issues a write statement only if the name does
\* not end in _2 and name and name_2 have one statistics_meta row each; a
\* name ending in _2 is rejected before any lookup; if either sensor has no
\* row (or several) the run returns with no write and the database unchanged.
C8_MergeSingleGuards ==
    LET X == args.sensor_name
        X_2 == X \o <<"_", "2">>
        one == Cardinality(Named(db0.statistics_meta, X)) = 1
        one_2 == Cardinality(Named(db0.statistics_meta, X_2)) = 1
    IN Ran("merge_single") =>
           /\ Writes(trace) # <<>> => ~EndsIn_2(X) /\ one /\ one_2
           /\ EndsIn_2(X) => trace = <<>> /\ out = "Rejected"
           /\ (~one \/ ~one_2) => exc = NoExc /\ Writes(trace) = <<>> /\ db = db0

\* a live merge_single of a name ending in _2 that has its own duplicate
C8_Witness ==
    /\ Ran("merge_single") /\ ~dry_run /\ out = "Rejected"
    /\ Cardinality(Named(db0.statistics_meta, args.sensor_name)) = 1
    /\ Cardinality(Named(db0.statistics_meta, args.sensor_name \o <<"_", "2">>)) = 1

\* what a write of a trace is: keywords, table, parameters
Shape(e) == <<e.stmt.verb, e.stmt.table, e.stmt.params>>

\* the five writes of merge_single(X), in the order of the claim
FiveWrites(X) ==
    LET X_2 == X \o <<"_", "2">>
    IN << <<"UPDATE OR IGNORE", "statistics", <<X, X_2>> >>,
          <<"UPDATE OR IGNORE", "statistics_short_term", <<X, X_2>> >>,
          <<"DELETE", "statistics_meta", <<X_2>> >>,
          <<"UPDATE OR IGNORE", "states", <<X, X_2>> >>,
          <<"DELETE", "states_meta", <<X_2>> >> >>

Shapes(tr) == [i \in DOMAIN tr |-> Shape(tr[i])]

\* the statements of one merge_single_sensor call
CallTrace(c) == SubSeq(trace, c.lo, c.hi)

MergeSingleWritesFive ==
    \A k \in DOMAIN calls :
        Writes(CallTrace(calls[k])) # <<>> =>
            Shapes(Writes(CallTrace(calls[k]))) = FiveWrites(calls[k].name)

\* C9 as stated: every merge_single_sensor call that writes issues the five
\* statements in order, and every merge_check that writes issues exactly
\* two, UPDATE statistics and then UPDATE statistics_short_term.
C9_Original ==
    /\ MergeSingleWritesFive
    /\ (Ran("merge_check") /\ Writes(trace) # <<>>) =>
          Shapes(Writes(trace)) = << <<"UPDATE", "statistics", <<>> >>,
                                     <<"UPDATE", "statistics_short_term", <<>> >> >>

\* C9, amended: every merge_single_sensor call that writes issues the five
\* statements in order; every merge_check that writes issues UPDATE
\* statistics first, and UPDATE statistics_short_term second unless the
\* first raised, which ends the run after one statement.
C9_WriteOrder ==
    /\ MergeSingleWritesFive
    /\ (Ran("merge_check") /\ Writes(trace) # <<>>) =>
          LET w == Writes(trace)
          IN /\ Shape(w[1]) = <<"UPDATE", "statistics", <<>> >>
             /\ w[1].stmt.ids = <<SensorId(db0, args.sensor_name_new),
                                  SensorId(db0, args.sensor_name_old)>>
             /\ IF w[1].how = "failed"
                  THEN Len(w) = 1 /\ exc = "IntegrityError" /\ db = db0
                  ELSE /\ Len(w) = 2
                       /\ Shape(w[2]) = <<"UPDATE", "statistics_short_term", <<>> >>
                       /\ w[2].stmt.ids = w[1].stmt.ids

\* a live merge_check whose first UPDATE hit the unique index
C9_Witness ==
    /\ Ran("merge_check") /\ ~dry_run
    /\ Len(Writes(trace)) = 1
    /\ exc = "IntegrityError"

\* no exec_select after the first exec_modify
ReadsFirst(tr) ==
    \A i, j \in DOMAIN tr : (tr[i].how # "read" /\ i < j) => tr[j].how # "read"

\* C10 as stated: in a run of merge_check, merge_single or merge_all no
\* exec_select follows the first exec_modify.
C10_Original ==
    (~Idle /\ args.action \in {"merge_check", "merge_single", "merge_all"}) =>
        ReadsFirst(trace)

\* C10, amended: in a run of merge_check or merge_single no exec_select
\* follows the first exec_modify; a run of merge_all is its SELECT followed
\* by its merge_single_sensor calls one after the other, and within each
\* call no exec_select follows the call's first exec_modify.
C10_ReadsFirstPerCall ==
    /\ (~Idle /\ args.action \in {"merge_check", "merge_single"}) => ReadsFirst(trace)
    /\ Ran("merge_all") =>
          /\ trace # <<>> /\ trace[1].how = "read"
          /\ \A k \in DOMAIN calls :
                /\ calls[k].lo = (IF k = 1 THEN 2 ELSE calls[k - 1].hi + 1)
                /\ calls[k].hi <= Len(trace)
                /\ ReadsFirst(CallTrace(calls[k]))
          /\ calls # <<>> => calls[Len(calls)].hi = Len(trace)
          /\ calls = <<>> => Len(trace) = 1

\* a merge_all whose second call looks its sensors up after the first call
\* has written
C10_Witness ==
    /\ Ran("merge_all") /\ ~dry_run
    /\ Len(calls) >= 2
    /\ calls[1].out = "Done"
    /\ calls[2].hi > calls[2].lo
    /\ ~ReadsFirst(trace)

\* the database after the executed statements of a trace, applied in order
RECURSIVE ApplyExecuted(_, _)
ApplyExecuted(d, tr) ==
    IF tr = <<>> THEN d
    ELSE ApplyExecuted(IF Head(tr).how = "executed" THEN Execute(d, Head(tr).stmt) ELSE d,
                       Tail(tr))

DriverErrors == {"IntegrityError", "OperationalError"}

\* C11: in a live run every write statement is committed on its own: when
\* a statement fails with a driver error, the database is what the write
\* statements executed before it made of it (the failed statement has
\* changed nothing, every earlier write statement is applied), the error
\* ends the run, the failed statement is the last statement of the run (no
\* retry, no later statement), and a run whose driver fails at its k-th
\* conn.execute call gets no further than that call.
C11_PartialProgress ==
    (~Idle /\ ~dry_run) =>
        /\ \A i \in DOMAIN trace : trace[i].how = "failed" => i = Len(trace)
        /\ \A i \in DOMAIN trace :
              (IsWrite(trace[i]) /\ i < Len(trace)) => trace[i].how = "executed"
        /\ (exc \in DriverErrors) <=>
              (trace # <<>> /\ trace[Len(trace)].how = "failed")
        /\ db = ApplyExecuted(db0, trace)
        /\ (fetched.fail_at > 0 /\ Len(trace) >= fetched.fail_at) =>
              /\ Len(trace) = fetched.fail_at
              /\ trace[Len(trace)].how = "failed"
              /\ exc = "OperationalError"
              /\ out = "Raised"

\* a live merge_all whose fourth write fails: three statements stay
\* applied, the run ends there, and the fault-free run would have gone on
C11_Witness ==
    /\ Ran("merge_all") /\ ~dry_run
    /\ exc = "OperationalError"
    /\ Len(Writes(trace)) = 4
    /\ IsWrite(trace[Len(trace)]) /\ trace[Len(trace)].how = "failed"
    /\ db # db0
    /\ LET whole == Run(db0, args, [fetched EXCEPT !.fail_at = 0], FALSE)
       IN /\ Len(Writes(whole.trace)) = 5
          /\ whole.db # db

\* a live merge_all whose driver fails after a completed merge, at the
\* last conn.execute call of the longest run: the five writes of the merge
\* stay applied
C11_FailsAfterMerge ==
    /\ Ran("merge_all") /\ ~dry_run
    /\ exc = "OperationalError"
    /\ fetched.fail_at = MaxFault
    /\ Len(trace) = MaxFault
    /\ trace[Len(trace)].how = "failed"
    /\ Len(Writes(trace)) = 5
    /\ \A i \in DOMAIN trace : IsWrite(trace[i]) => trace[i].how = "executed"
    /\ db = ApplyExecuted(db0, trace)
    /\ db # db0

\* the name without its last two characters
Base(name) == SubSeq(name, 1, Len(name) - 2)

IsMeter(name) ==
    /\ Len(name) >= Len(MeterPrefix)
    /\ SubSeq(name, 1, Len(MeterPrefix)) = MeterPrefix

\* C12: a merge_all run that no driver error ends calls merge_single for
\* the base of every statistics_meta name that ends in "_2" unless the base
\* starts with "sensor.electricmeter", calls it for no such base, and
\* makes one call per enumerated name that is not a meter, whatever the
\* earlier calls came to (rejected, original missing, duplicate missing).
C12_WholeBatch ==
    (Ran("merge_all") /\ exc = NoExc) =>
        LET list == fetched.list_all_2_sensors
            names == {calls[i].name : i \in DOMAIN calls}
        IN /\ \A m \in db0.statistics_meta :
                 (EndsIn_2(m.statistic_id) /\ ~IsMeter(Base(m.statistic_id))) =>
                     Base(m.statistic_id) \in names
           /\ \A n \in names : ~IsMeter(n)
           /\ Len(calls) = Cardinality({i \in DOMAIN list : ~IsMeter(Base(list[i]))})
           /\ out = "Done"

\* a live merge_all whose first call is rejected or finds a sensor missing
\* and whose later call merges
C12_Witness ==
    /\ Ran("merge_all") /\ ~dry_run /\ exc = NoExc
    /\ \E i, j \in DOMAIN calls :
          /\ i < j
          /\ calls[i].out \in {"Rejected", "OriginalMissing", "DuplicateMissing"}
          /\ calls[j].out = "Done"

\* C13: the list merge_all enumerates holds a name of statistics_meta if
\* and only if the name ends in the two characters "_2"; merge_single is
\* called at most once per base name, and only for a base whose name with
\* "_2" appended was in statistics_meta at enumeration time.
C13_CandidatesEndIn_2 ==
    Ran("merge_all") =>
        LET list == fetched.list_all_2_sensors
        IN /\ {list[i] : i \in DOMAIN list} =
                {m.statistic_id : m \in {x \in db0.statistics_meta : EndsIn_2(x.statistic_id)}}
           /\ \A i, j \in DOMAIN calls : calls[i].name = calls[j].name => i = j
           /\ \A i \in DOMAIN calls :
                 \E m \in db0.statistics_meta : m.statistic_id = calls[i].name \o Suffix

\* a merge_all that enumerates sensor.foo12 beside sensor.foo_2 and calls
\* merge_single for sensor.foo twice
C13_Foo12Enumerated ==
    /\ Ran("merge_all")
    /\ \E i \in DOMAIN fetched.list_all_2_sensors : fetched.list_all_2_sensors[i] = Foo12
    /\ \E i, j \in DOMAIN calls : i # j /\ calls[i].name = Foo /\ calls[j].name = Foo
    /\ \A m \in db0.statistics_meta : \A o \in db0.statistics_meta :
          m.statistic_id = o.statistic_id => m.id = o.id

\* C14: a merge_check run that no driver error ends, on any database and
\* for any pair of names, ends without an exception, aborted (a name not
\* found or ambiguous, the same id, an order violation) or done; also
\* when a resolved sensor has no row in statistics.
C14_MergeCheckTerminates ==
    (Ran("merge_check") /\ exc \notin DriverErrors) =>
        /\ exc = NoExc
        /\ out \in {"NotFound", "Ambiguous", "SameId", "OrderViolation", "Done"}

\* a merge_check of two different sensors of which the old one has no row
\* in statistics: the run ends with a TypeError after the third SELECT
C14_NoRowsRaises ==
    /\ Ran("merge_check")
    /\ SensorId(db0, args.sensor_name_old) # None
    /\ SensorId(db0, args.sensor_name_new) # None
    /\ SensorId(db0, args.sensor_name_old) # SensorId(db0, args.sensor_name_new)
    /\ RowsOf(db0.statistics, SensorId(db0, args.sensor_name_old)) = {}
    /\ exc = "TypeError"
    /\ Len(trace) = 3

\* C15: a merge_check run, dry or live, however it ends, leaves
\* statistics_meta, states_meta and states as they were; every row of
\* statistics and of statistics_short_term is a row that was there, with
\* the same id, created_ts and start_ts, and with the same metadata_id
\* unless that was the old id; no row is added or removed; the metadata
\* row of the old sensor is still there.
C15_CheckedMoveFrame ==
    Ran("merge_check") =>
        LET old_id == SensorId(db0, args.sensor_name_old)
            Kept(before, after) ==
                /\ {r.id : r \in after} = {r.id : r \in before}
                /\ Cardinality(after) = Cardinality(before)
                /\ \A r \in after : \E r0 \in before :
                      /\ r0.id = r.id
                      /\ r0.created_ts = r.created_ts
                      /\ r0.start_ts = r.start_ts
                      /\ r0.metadata_id # r.metadata_id =>
                            (old_id # None /\ r0.metadata_id = old_id)
        IN /\ db.statistics_meta = db0.statistics_meta
           /\ db.states_meta = db0.states_meta
           /\ db.states = db0.states
           /\ db.unique_idx = db0.unique_idx
           /\ Kept(db0.statistics, db.statistics)
           /\ Kept(db0.statistics_short_term, db.statistics_short_term)
           /\ old_id # None =>
                 [id |-> old_id, statistic_id |-> args.sensor_name_old] \in db.statistics_meta

\* a live merge_check that has moved rows in both sample tables and left
\* the old sensor's metadata row with no row to point to
C15_Witness ==
    LET old_id == SensorId(db0, args.sensor_name_old)
    IN /\ Ran("merge_check") /\ ~dry_run /\ out = "Done"
       /\ db.statistics # db0.statistics
       /\ db.statistics_short_term # db0.statistics_short_term
       /\ [id |-> old_id, statistic_id |-> args.sensor_name_old] \in db.statistics_meta
       /\ RowsOf(db.statistics, old_id) = {}
       /\ db.states_meta # {}

\* C16: after a live merge_single(X) that reached Done, no row of
\* statistics or of statistics_short_term references the id X_2 had in
\* statistics_meta, also when UPDATE OR IGNORE has skipped rows that
\* collide with a row of X on the unique index.
C16_NoOrphanedSamples ==
    (Ran("merge_single") /\ ~dry_run /\ out = "Done") =>
        LET id2 == SensorId(db0, args.sensor_name \o Suffix)
        IN /\ RowsOf(db.statistics, id2) = {}
           /\ RowsOf(db.statistics_short_term, id2) = {}

\* a live merge_single that reached Done on a database with the unique
\* index: a row of X_2 with the start_ts of a row of X is skipped, and
\* still references the id of X_2 after that metadata row is deleted
C16_OrphanLeft ==
    LET id2 == SensorId(db0, args.sensor_name \o Suffix)
    IN /\ Ran("merge_single") /\ ~dry_run /\ out = "Done"
       /\ db0.unique_idx
       /\ RowsOf(db.statistics, id2) # {}
       /\ \A m \in db.statistics_meta : m.id # id2

\* the metadata_id the states_meta row of a name has, None without a row
StatesId(d, name) ==
    LET ids == {m.metadata_id : m \in {x \in d.states_meta : x.entity_id = name}}
    IN IF ids = {} THEN None ELSE Min(ids)

\* C17: after a live merge_single(X) that passed the existence checks,
\* every states row that referenced the states_meta id of X_2 references
\* the states_meta id of X, no states row has lost its reference (NULL
\* where it had an id), and no states row references a states_meta row this
\* run has deleted; also when X or X_2 has no states_meta row.
C17_StatesKeepReference ==
    (Ran("merge_single") /\ ~dry_run /\ out = "Done") =>
        LET id  == StatesId(db0, args.sensor_name)
            id2 == StatesId(db0, args.sensor_name \o Suffix)
            deleted == {m.metadata_id : m \in db0.states_meta \ db.states_meta}
        IN /\ \A r0 \in db0.states :
                 (id2 # None /\ r0.metadata_id = id2) =>
                     /\ id # None
                     /\ [r0 EXCEPT !.metadata_id = id] \in db.states
           /\ \A r \in db.states :
                 r.metadata_id = None =>
                     \E r0 \in db0.states : r0.state_id = r.state_id /\ r0.metadata_id = None
           /\ \A r \in db.states : r.metadata_id \notin deleted

\* a live merge_single(X) where X_2 has a states_meta row and X has none:
\* the states row of X_2 is left with metadata_id NULL
C17_ReferenceLost ==
    /\ Ran("merge_single") /\ ~dry_run /\ out = "Done"
    /\ StatesId(db0, args.sensor_name) = None
    /\ StatesId(db0, args.sensor_name \o Suffix) # None
    /\ \E r0 \in db0.states : \E r \in db.states :
          /\ r0.state_id = r.state_id
          /\ r0.metadata_id = StatesId(db0, args.sensor_name \o Suffix)
          /\ r.metadata_id = None

\* merge_check has passed its checks: it has reached the exec_modify calls
Checked == Ran("merge_check") /\ Writes(trace) # <<>>

\* C18 as stated: whenever merge_check reaches Checked, every statistics
\* row of the old id has a start_ts strictly less than that of every
\* statistics row of the new id.
C18_Original ==
    Checked =>
        \A o \in RowsOf(db0.statistics, SensorId(db0, args.sensor_name_old)) :
            \A n \in RowsOf(db0.statistics, SensorId(db0, args.sensor_name_new)) :
                o.start_ts < n.start_ts

\* C18: whenever merge_check reaches Checked, the start_ts of the old
\* sensor's row fetched for the greatest created_ts is strictly less than
\* the start_ts of the new sensor's row fetched for the least created_ts;
\* the start_ts of the other rows is not compared.
C18_FetchedRowsStartOrdered ==
    Checked =>
        LET olds == RowsOf(db0.statistics, SensorId(db0, args.sensor_name_old))
            news == RowsOf(db0.statistics, SensorId(db0, args.sensor_name_new))
            o == fetched.old_row
            n == fetched.new_row
        IN /\ o \in olds /\ \A r \in olds : r.created_ts <= o.created_ts
           /\ n \in news /\ \A r \in news : r.created_ts >= n.created_ts
           /\ o.start_ts < n.start_ts

\* a check that passes on the fetched rows while another row of the old
\* sensor has a start_ts that is not before the new sensor's
C18_Witness ==
    /\ Checked
    /\ fetched.old_row.start_ts < fetched.new_row.start_ts
    /\ \E o \in RowsOf(db0.statistics, SensorId(db0, args.sensor_name_old)) :
          \E n \in RowsOf(db0.statistics, SensorId(db0, args.sensor_name_new)) :
              o.start_ts >= n.start_ts

\* C19: whenever merge_check reaches Checked, every statistics row of the
\* old id has a created_ts strictly less than that of every statistics row
\* of the new id; after a live move that returned, the rows of the merged
\* sensor are the former rows of the old sensor, each created before every
\* original row of the new sensor, and those original rows.
C19_CreatedSeparated ==
    Checked =>
        LET old_id == SensorId(db0, args.sensor_name_old)
            new_id == SensorId(db0, args.sensor_name_new)
            olds == RowsOf(db0.statistics, old_id)
            news == RowsOf(db0.statistics, new_id)
        IN /\ \A o \in olds : \A n \in news : o.created_ts < n.created_ts
           /\ (~dry_run /\ out = "Done") =>
                 /\ RowsOf(db.statistics, new_id) =
                       news \cup {[o EXCEPT !.metadata_id = new_id] : o \in olds}
                 /\ \A r \in RowsOf(db.statistics, new_id) : \A n \in news :
                       (r \notin news) => r.created_ts < n.created_ts

\* a live move of two rows of the old sensor before the row of the new one
C19_Witness ==
    /\ Checked /\ ~dry_run /\ out = "Done"
    /\ Cardinality(RowsOf(db0.statistics, SensorId(db0, args.sensor_name_old))) > 1
    /\ RowsOf(db0.statistics, SensorId(db0, args.sensor_name_new)) # {}
    /\ db.statistics # db0.statistics

(***************************************************************************)
(* Two processes: states SpecConcurrent reaches and Spec does not, on      *)
(* every interpreter unless the predicate names one.                       *)
(***************************************************************************)
\* the statements of a trace that the database executed
Executed(tr) == SelectSeq(tr, LAMBDA e : e.how = "executed")

\* has process p run command line a live to Done?
DoneLive(p, a) == p.args = a /\ ~p.dry_run /\ p.out = "Done"

\* two live merge_single of the same sensor, the second started between the
\* lookups and the first UPDATE of the first: both find the duplicate and
\* both execute their five writes
BothMergesWrite ==
    LET a == [NoArgs EXCEPT !.action = "merge_single", !.sensor_name = Foo]
    IN /\ DoneLive(Me, a) /\ DoneLive(other, a)
       /\ Len(Executed(trace)) = 5
       /\ Len(Executed(other.trace)) = 5

\* the database two live runs leave when the second follows the first
Serial(d, a1, a2) == Run(Run(d, a1, NoFetch, FALSE).db, a2, NoFetch, FALSE).db

\* a live merge_check of sensors 1 and 3 and a live merge_single of sensor 1
\* that ran between two statements of it (or the other way round) have
\* left a database that neither order of the two runs leaves
NeitherOrder ==
    LET c == [NoArgs EXCEPT !.action = "merge_check", !.sensor_name_old = Foo,
                            !.sensor_name_new = Foo12]
        m == [NoArgs EXCEPT !.action = "merge_single", !.sensor_name = Foo]
    IN /\ \/ DoneLive(Me, c) /\ DoneLive(other, m)
          \/ DoneLive(Me, m) /\ DoneLive(other, c)
       /\ db0.statistics_meta = MetaFixed
       /\ db0.statistics = StatisticsShared
       /\ db0.statistics_short_term = SampleTable({<<1, 1, 1>>, <<2, 1, 1>>})
       /\ Len(Executed(trace)) + Len(Executed(other.trace)) = 7
       /\ db # Serial(db0, c, m)
       /\ db # Serial(db0, m, c)

\* the checked move has returned and the old sensor has rows again: a
\* merge_single ran between its two UPDATEs
OldSensorHasRowsAfterMove ==
    /\ DoneLive(Me, [NoArgs EXCEPT !.action = "merge_check", !.sensor_name_old = Foo,
                                   !.sensor_name_new = Foo12])
    /\ DoneLive(other, [NoArgs EXCEPT !.action = "merge_single", !.sensor_name = Foo])
    /\ RowsOf(db.statistics, 1) # {}
    /\ RowsOf(db.statistics_short_term, 1) = {}

\* Python >= 3.12, rollback journal: the second process has read a row, the
\* commit of a write of the first waits for its read lock
WaitsToCommit ==
    /\ python312 /\ ~wal
    /\ Running(Me) /\ txn.lock = "pending"
    /\ Running(other) /\ other.txn.lock = "shared"

\* ... and the timeout has run out: the write is rolled back, the run ends
\* in "database is locked" with its earlier writes applied
CommitTimedOut ==
    /\ python312 /\ ~wal
    /\ Finished /\ ~dry_run /\ exc = "OperationalError"
    /\ trace[Len(trace)].how = "rolled-back"
    /\ Len(Executed(trace)) > 0
    /\ db # db0

\* Python >= 3.12: a write of the first process is refused because the
\* process holds a read lock the other one waits for (rollback journal) or
\* a snapshot the other one has overwritten (write-ahead log)
WriteRefusedByOther ==
    /\ python312
    /\ Finished /\ ~dry_run /\ exc = "OperationalError"
    /\ IsWrite(trace[Len(trace)]) /\ trace[Len(trace)].how = "failed"
    /\ Len(Executed(other.trace)) > 0

\* Python >= 3.12, write-ahead log: the first process reads a snapshot the
\* second has overwritten
StaleSnapshot ==
    /\ python312 /\ wal
    /\ Running(Me) /\ txn.lock = "shared" /\ txn.snap # db

\* before Python 3.12 no statement waits and none is refused
LegacyNeverLocked ==
    ~python312 =>
        /\ exc # "OperationalError" /\ other.exc # "OperationalError"
        /\ txn = NoTxn /\ other.txn = NoTxn

\* with a rollback journal a process that holds a read lock reads the file
\* as it is: no commit gets past the lock
ReadLockKeepsFile ==
    ~wal =>
        /\ txn.lock = "shared" => txn.snap = db
        /\ other.txn.lock = "shared" => other.txn.snap = db

\* two connections never wait to commit at the same time
OneWriter == ~(txn.lock = "pending" /\ other.txn.lock = "pending")

====
